---- MODULE Spec2Model ----
(***************************************************************************)
(* Model of comparador-react-pro: the library (lib.ts: validateValue,      *)
(* pickKeywords, cosineSim, getEmbedder/embedAll) and the App component    *)
(* (handleLoadYAML, handleLoadDoc, runCompare, navigation, score).         *)
(*                                                                         *)
(* A JavaScript string is a sequence of one-character strings, so that     *)
(* lower-casing, regex matching, splitting and trimming are computed.      *)
(* `undefined` optional fields are the falsy value of their type ("" for   *)
(* a string, 0 for a number, <<>> for an array, FALSE for a boolean): the  *)
(* code only tests them for truthiness.                                    *)
(***************************************************************************)
EXTENDS Integers, Sequences, FiniteSets, Bags, TLC

VARIABLES
  \* ---- App component state (useState hooks) and its handlers in flight
  schema,            \* Schema | null         (<<>> = null, <<s>> = loaded)
  pdf,               \* pdf handle | null     (<<>> = null, <<h>> = handle)
  pages,             \* PageText[]
  pageIndex,         \* number
  loading,           \* boolean
  hits,              \* CampoHit[]
  loads,             \* bag of the handleLoadDoc calls awaiting a promise
  run,               \* the runCompare call: position and closure/locals
  lastLoad,          \* history: the document state when the latest
                     \* handleLoadDoc call started, and how the call ended
  \* ---- lib.ts module state and its callers
  featureExtractor,  \* module-level `let featureExtractor` (0 = null)
  callers,           \* getEmbedder calls: position and returned instance
  \* ---- arguments / results of the pure functions
  field, val, errs,                  \* validateValue(field, val) -> errs
  text, n, keywords,                 \* pickKeywords(text, n) -> keywords
  qEmb, pageEmb, bestIdx, bestScore, \* best-page scan of runCompare
  returned           \* which pure function has returned ("" = none yet)

appVars  == <<schema, pdf, pages, pageIndex, loading, hits, loads, run>>
embVars  == <<featureExtractor, callers>>
valVars  == <<field, val, errs>>
kwVars   == <<text, n, keywords>>
bestVars == <<qEmb, pageEmb, bestIdx, bestScore>>
pureVars == <<valVars, kwVars, bestVars, returned>>
vars     == <<appVars, lastLoad, embVars, pureVars>>

----------------------------------------------------------------------------
(* Bounds of the model *)

MaxValLen   == 3   \* longest page text handed to validateValue
MaxWords    == 4   \* most words of a text handed to pickKeywords
MaxPages    == 2   \* most pages of a document
MaxFields   == 1   \* most fields (campos) of a schema
MaxInFlight == 2   \* most handleLoadDoc calls awaiting at once
MaxHits     == 6   \* longest result list handed to score
NCallers    == 3   \* concurrent callers of getEmbedder

----------------------------------------------------------------------------
(* Strings *)

SeqsUpTo(S, k) == UNION {[1..m -> S] : m \in 0..k}

Digits == {"0", "1", "2", "3", "4", "5", "6", "7", "8", "9"}
Upper  == {"A", "B", "M", "U"}
Lower  == {"a", "b", "m", "u"}
Spaces == {" ", "\t", "\n"}

\* String.prototype.toLowerCase, character by character
lowerChar(c) ==
  CASE c = "A" -> "a" [] c = "B" -> "b" [] c = "M" -> "m" [] c = "U" -> "u"
    [] OTHER -> c

toLowerCase(s) == [i \in 1..Len(s) |-> lowerChar(s[i])]

\* String.prototype.trim() === '' : only white space
trimIsEmpty(s) == \A i \in 1..Len(s) : s[i] \in Spaces

\* String.prototype.includes
includes(s, t) ==
  \E i \in 0..(Len(s) - Len(t)) : SubSeq(s, i + 1, i + Len(t)) = t

\* s.split(/\s+/): the pieces between maximal runs of white space; a run at
\* either end leaves an empty piece there, and '' splits into [''].
RECURSIVE splitFrom(_, _, _)
splitFrom(s, i, cur) ==
  IF i > Len(s) THEN <<cur>>
  ELSE IF s[i] \in Spaces
       THEN IF i > 1 /\ s[i - 1] \in Spaces
            THEN splitFrom(s, i + 1, cur)
            ELSE <<cur>> \o splitFrom(s, i + 1, <<>>)
       ELSE splitFrom(s, i + 1, Append(cur, s[i]))

splitWS(s) == splitFrom(s, 1, <<>>)

----------------------------------------------------------------------------
(* lib.ts: validateValue *)

ErrObrigatorio == "campo obrigatorio nao encontrado/preenchido"
ErrNumerico    == "valor numerico nao identificado"
ErrEscolha     == "valor nao consta na lista permitida"
ErrRegex       == "nao atende ao padrao (regex)"
ErrMinPalavras(k) == "menos que " \o ToString(k) \o " palavras"

\* val.match(/[\d\.\,]+/): some character is a digit, '.' or ','
matchNumero(s) == \E i \in 1..Len(s) : s[i] \in Digits \cup {".", ","}

\* new RegExp(rx, 'i').test(s), for the patterns the schemas of the model use
RxDigits  == "\\d+"
RxLetters == "^a+$"
regexTest(rx, s) ==
  CASE rx = RxDigits  -> \E i \in 1..Len(s) : s[i] \in Digits
    [] rx = RxLetters -> Len(s) > 0 /\ \A i \in 1..Len(s) : lowerChar(s[i]) = "a"

\* validateValue with the pattern rule applied first
validateValue_RegexFirst(f, v) ==
  LET tipo == IF f.tipo = "" THEN "texto" ELSE f.tipo
      e1 == IF f.obrigatorio /\ (v = <<>> \/ trimIsEmpty(v))
            THEN <<ErrObrigatorio>> ELSE <<>>
      e2 == IF tipo = "numerico" /\ ~matchNumero(v)
            THEN <<ErrNumerico>> ELSE <<>>
      e4 == IF f.regex # "" /\ ~regexTest(f.regex, v)
            THEN <<ErrRegex>> ELSE <<>>
  IN e4 \o e1 \o e2

validateValue(f, v) ==
  LET tipo == IF f.tipo = "" THEN "texto" ELSE f.tipo
      e1 == IF f.obrigatorio /\ (v = <<>> \/ trimIsEmpty(v))
            THEN <<ErrObrigatorio>> ELSE <<>>
      e2 == IF tipo = "numerico" /\ ~matchNumero(v)
            THEN <<ErrNumerico>> ELSE <<>>
      e3 == IF tipo = "escolha" /\ Len(f.valores_validos) > 0
               /\ ~\E k \in 1..Len(f.valores_validos) :
                     includes(toLowerCase(v), toLowerCase(f.valores_validos[k]))
            THEN <<ErrEscolha>> ELSE <<>>
      e4 == IF f.regex # "" /\ ~regexTest(f.regex, v)
            THEN <<ErrRegex>> ELSE <<>>
      e5 == IF f.min_palavras # 0 /\ v # <<>>
               /\ Len(splitWS(v)) < f.min_palavras
            THEN <<ErrMinPalavras(f.min_palavras)>> ELSE <<>>
  IN e1 \o e2 \o e3 \o e4 \o e5

----------------------------------------------------------------------------
(* Inputs of validateValue *)

ValAlphabet == {"a", "A", "1", ".", " "}
ValTexts    == SeqsUpTo(ValAlphabet, MaxValLen)

Fields ==
  [ id : {"f"}, rotulos : {<<"f">>},
    obrigatorio : BOOLEAN,
    tipo : {"", "texto", "numerico", "escolha", "booleano"},
    valores_validos : {<<>>, << <<"a">> >>, << <<"A", "1">>, <<" ">> >>},
    min_palavras : {0, 2, 3},
    regex : {"", RxDigits, RxLetters} ]

----------------------------------------------------------------------------
(* lib.ts: pickKeywords *)

StopWords ==
  { <<"d","e">>, <<"d","a">>, <<"d","o">>, <<"d","a","s">>, <<"d","o","s">>,
    <<"a">>, <<"o">>, <<"e">>, <<"o","u">>, <<"p","a","r","a">>,
    <<"p","o","r">>, <<"s","e","m">>, <<"c","o","m">>, <<"e","m">>,
    <<"n","o">>, <<"n","a">>, <<"n","o","s">>, <<"n","a","s">>, <<"u","m">>,
    <<"u","m","a">>, <<"a","o">>, <<"a","s">>, <<"o","s">>, <<"q","u","e">>,
    <<"s","e">> }

\* .replace(/[^\p{L}0-9 ]+/gu, ''): keep letters, digits and the space only
stripNonWord(s) ==
  SelectSeq(s, LAMBDA c : c \in Lower \cup Upper \cup Digits \cup {" "})

digitValue(c) ==
  CASE c = "0" -> 0 [] c = "1" -> 1 [] c = "2" -> 2 [] c = "3" -> 3
    [] c = "4" -> 4 [] c = "5" -> 5 [] c = "6" -> 6 [] c = "7" -> 7
    [] c = "8" -> 8 [] c = "9" -> 9

RECURSIVE toNumber(_)
toNumber(w) ==
  IF w = <<>> THEN 0
  ELSE 10 * toNumber(SubSeq(w, 1, Len(w) - 1)) + digitValue(w[Len(w)])

\* A property key that is an array index (a canonical numeric string): an
\* ordinary object enumerates these first, in ascending numeric order, and
\* only then its other string keys in insertion order.
isArrayIndex(w) ==
  /\ Len(w) > 0 /\ Len(w) <= 9
  /\ \A i \in 1..Len(w) : w[i] \in Digits
  /\ (Len(w) > 1 => w[1] # "0")

\* for (const w of words) { if (...) continue; freq[w] = (freq[w]||0)+1 }
\* freq as the list of [key, count] in insertion order
RECURSIVE countWords(_, _)
countWords(words, freq) ==
  IF words = <<>> THEN freq
  ELSE LET w == Head(words)
           skip == w = <<>> \/ w \in StopWords \/ Len(w) < 3
           at == {i \in 1..Len(freq) : freq[i].key = w}
       IN countWords(Tail(words),
            IF skip THEN freq
            ELSE IF at = {} THEN Append(freq, [key |-> w, count |-> 1])
            ELSE [i \in 1..Len(freq) |->
                    IF i \in at THEN [freq[i] EXCEPT !.count = @ + 1]
                    ELSE freq[i]])

\* ascending numeric order of the array-index keys
RECURSIVE sortIndexKeys(_)
sortIndexKeys(es) ==
  IF es = <<>> THEN <<>>
  ELSE LET m == CHOOSE i \in 1..Len(es) :
                  \A j \in 1..Len(es) : toNumber(es[i].key) <= toNumber(es[j].key)
       IN <<es[m]>> \o sortIndexKeys(SubSeq(es, 1, m - 1) \o SubSeq(es, m + 1, Len(es)))

\* Object.entries(freq)
objectEntries(freq) ==
  sortIndexKeys(SelectSeq(freq, LAMBDA e : isArrayIndex(e.key)))
    \o SelectSeq(freq, LAMBDA e : ~isArrayIndex(e.key))

\* .sort((a,b) => b[1]-a[1]): stable, descending count
RECURSIVE sortByCountDesc(_)
sortByCountDesc(es) ==
  IF es = <<>> THEN <<>>
  ELSE LET rest == sortByCountDesc(SubSeq(es, 1, Len(es) - 1))
           e == es[Len(es)]
           \* e goes after every entry whose count is >= its own
           k == Cardinality({i \in 1..Len(rest) : rest[i].count >= e.count})
       IN SubSeq(rest, 1, k) \o <<e>> \o SubSeq(rest, k + 1, Len(rest))

slice0(s, k) == SubSeq(s, 1, IF k < Len(s) THEN k ELSE Len(s))

pickKeywords(t, k) ==
  LET words == splitWS(stripNonWord(toLowerCase(t)))
      freq == countWords(words, <<>>)
      top == slice0(sortByCountDesc(objectEntries(freq)), k)
  IN [i \in 1..Len(top) |-> top[i].key]

----------------------------------------------------------------------------
(* Inputs of pickKeywords: up to MaxWords words joined by one space *)

Vocabulary ==
  { <<"u","m","a">>, <<"A","b","a">>, <<"a","b","a">>, <<"1","0","0">>,
    <<"2","0","0">>, <<"0","2","0">>, <<"2","0">>, <<"a",".","b","1">> }

RECURSIVE joinWords(_)
joinWords(ws) ==
  IF ws = <<>> THEN <<>>
  ELSE IF Len(ws) = 1 THEN ws[1]
  ELSE ws[1] \o <<" ">> \o joinWords(Tail(ws))

KwTexts == {joinWords(ws) : ws \in SeqsUpTo(Vocabulary, MaxWords)}
KwNs    == {1, 2, 6}

----------------------------------------------------------------------------
(* lib.ts: cosineSim, and the best-page scan of runCompare *)

\* Scores are fixed-point numbers with three decimals (1.0 is fixed(1)); the
\* vectors of the model have integer norms, so every quotient is exact.  The
\* 1e-8 added to the denominator is what makes a zero vector score 0; its
\* effect on a non-zero denominator is below the resolution.
fixed(x) == x * 1000

Vecs == { <<1, 0>>, <<0, 1>>, <<-1, 0>>, <<3, 4>>, <<4, 3>>, <<0, 0>> }

RECURSIVE sumProd(_, _, _)
sumProd(a, b, i) ==
  IF i > Len(a) THEN 0 ELSE a[i] * b[i] + sumProd(a, b, i + 1)

sqrt(x) == CHOOSE r \in 0..x : r * r = x

cosineSim(a, b) ==
  LET dot == sumProd(a, b, 1)
      na  == sumProd(a, a, 1)
      nb  == sumProd(b, b, 1)
      den == sqrt(na) * sqrt(nb)
  IN IF den = 0 THEN 0 ELSE fixed(dot) \div den

\* let bestIdx = 0, bestScore = -1
\* for (i = 0; i < pages.length; i++) { score = cosineSim(qEmb, pageEmb[i])
\*   if (score > bestScore) { bestScore = score; bestIdx = i } }
\* i and bestIdx are 0-based as in the code; pe is 1-based.
RECURSIVE scanPages(_, _, _, _)
scanPages(q, pe, i, best) ==
  IF i >= Len(pe) THEN best
  ELSE LET score == cosineSim(q, pe[i + 1])
       IN scanPages(q, pe, i + 1,
            IF score > best.bestScore
            THEN [bestIdx |-> i, bestScore |-> score]
            ELSE best)

\* the scan with `>=` in place of `>`: the last of equal scores wins
RECURSIVE scanPages_LastWins(_, _, _, _)
scanPages_LastWins(q, pe, i, best) ==
  IF i >= Len(pe) THEN best
  ELSE LET score == cosineSim(q, pe[i + 1])
       IN scanPages_LastWins(q, pe, i + 1,
            IF score >= best.bestScore
            THEN [bestIdx |-> i, bestScore |-> score]
            ELSE best)

bestPage_LastWins(q, pe) ==
  scanPages_LastWins(q, pe, 0, [bestIdx |-> 0, bestScore |-> fixed(-1)])

bestPage(q, pe) == scanPages(q, pe, 0, [bestIdx |-> 0, bestScore |-> fixed(-1)])

----------------------------------------------------------------------------
(* lib.ts: getEmbedder *)

NoModel == 0
Callers == 1..NCallers

\* A call of getEmbedder by caller c.  `if (!featureExtractor)` is read when
\* the call starts; the assignment happens when the awaited pipeline(...)
\* resolves.  The instance a pipeline call builds is named after its caller
\* (a caller whose pipeline call resolved never makes another one).
GetEmbedder(c) ==
  /\ callers[c].pc # "pipeline"
  /\ IF featureExtractor = NoModel
     THEN callers' = [callers EXCEPT ![c] = [pc |-> "pipeline", got |-> NoModel]]
     ELSE callers' = [callers EXCEPT ![c] = [pc |-> "returned", got |-> featureExtractor]]
  /\ UNCHANGED featureExtractor

PipelineResolves(c) ==
  /\ callers[c].pc = "pipeline"
  /\ featureExtractor' = c
  /\ callers' = [callers EXCEPT ![c] = [pc |-> "returned", got |-> c]]

PipelineRejects(c) ==
  /\ callers[c].pc = "pipeline"
  /\ callers' = [callers EXCEPT ![c] = [pc |-> "threw", got |-> NoModel]]
  /\ UNCHANGED featureExtractor

----------------------------------------------------------------------------
(* App: inputs *)

Max(a, b) == IF a > b THEN a ELSE b
Min(a, b) == IF a < b THEN a ELSE b

\* The files the user can pick.  ext is
\* (docFile.name.split('.').pop()||'').toLowerCase()
DocFiles ==
  { [name |-> "a.pdf",  ext |-> "pdf",  numPages |-> MaxPages],
    [name |-> "s.pdf",  ext |-> "pdf",  numPages |-> 1],
    [name |-> "b.docx", ext |-> "docx", numPages |-> 0],
    [name |-> "n.md",   ext |-> "md",   numPages |-> 0],
    [name |-> "c.png",  ext |-> "png",  numPages |-> 0] }

\* the text of page i of a PDF, and the text of a DOCX / TXT / MD file
pageFullText(i) == <<"a", " ", ToString(i)>>
flatFullText == <<"A", ".", " ", "1">>

\* extractPerPage / ocrPDFPages: one PageText per page, pageIndex i-1
pdfPages(f) ==
  [i \in 1..f.numPages |-> [pageIndex |-> i - 1, fullText |-> pageFullText(i)]]

\* the "single page" built for DOCX / TXT / MD
flatPages == << [pageIndex |-> 0, fullText |-> flatFullText] >>

\* the vectors the embedding model returns in the App
AppVecs == { <<1, 0>>, <<0, 1>> }

pdfHandle(f) == [name |-> f.name, numPages |-> f.numPages]

\* The schemas parseYAMLFile can return: campos of 0..MaxFields fields
campo(i) ==
  [ id |-> "f" \o ToString(i), rotulos |-> <<"f">>,
    obrigatorio |-> TRUE, tipo |-> "numerico",
    valores_validos |-> <<>>, min_palavras |-> 0, regex |-> "" ]

Schemas == { [campos |-> [i \in 1..k |-> campo(i)]] : k \in 0..MaxFields }

----------------------------------------------------------------------------
(* App: handleLoadYAML *)

\* setSchema(await parseYAMLFile(yamlFile)); a parse that throws sets nothing
handleLoadYAML(s) ==
  /\ schema' = <<s>>
  /\ UNCHANGED <<pdf, pages, pageIndex, loading, hits, loads, run>>

----------------------------------------------------------------------------
(* App: handleLoadDoc.  A call is a member of `loads` while it awaits.     *)

awaiting(l) == SetToBag({l})

\* click on "Carregar Documento": docFile f and useOCR are read now
handleLoadDoc(f, useOCR) ==
  /\ BagCardinality(loads) < MaxInFlight
  /\ loads' =
       IF f.ext = "pdf"
       THEN loads (+) awaiting([file |-> f, useOCR |-> useOCR, pc |-> "loadPDF"])
       ELSE IF f.ext = "docx"
       THEN loads (+) awaiting([file |-> f, useOCR |-> FALSE, pc |-> "extractDOCX"])
       ELSE IF f.ext = "txt" \/ f.ext = "md"
       THEN loads (+) awaiting([file |-> f, useOCR |-> FALSE, pc |-> "extractTXT"])
       ELSE loads   \* alert('Formato nao suportado...')
  /\ UNCHANGED <<schema, pdf, pages, pageIndex, loading, hits, run>>

\* `const { pdf } = await loadPDF(docFile)` resolved: setPdf(pdf), then the
\* call awaits ocrPDFPages or extractPerPage
loadPDFResolves(l) ==
  /\ BagIn(l, loads) /\ l.pc = "loadPDF"
  /\ pdf' = <<pdfHandle(l.file)>>
  /\ loads' = (loads (-) awaiting(l)) (+)
              awaiting([l EXCEPT !.pc = IF l.useOCR THEN "ocrPDFPages"
                                        ELSE "extractPerPage"])
  /\ UNCHANGED <<schema, pages, pageIndex, loading, hits, run>>

\* extractResolves without setPageIndex(0)
extractResolves_KeepsIndex(l) ==
  /\ BagIn(l, loads) /\ l.pc \in {"ocrPDFPages", "extractPerPage"}
  /\ pages' = pdfPages(l.file)
  /\ loads' = loads (-) awaiting(l)
  /\ UNCHANGED <<schema, pdf, pageIndex, loading, hits, run>>

\* the awaited extraction resolved: setPages(pgs); setPageIndex(0)
extractResolves(l) ==
  /\ BagIn(l, loads) /\ l.pc \in {"ocrPDFPages", "extractPerPage"}
  /\ pages' = pdfPages(l.file)
  /\ pageIndex' = 0
  /\ loads' = loads (-) awaiting(l)
  /\ UNCHANGED <<schema, pdf, loading, hits, run>>

\* extractDOCX / extractTXT resolved: setPdf(null); setPages([page]);
\* setPageIndex(0)
flatResolves(l) ==
  /\ BagIn(l, loads) /\ l.pc \in {"extractDOCX", "extractTXT"}
  /\ pdf' = <<>>
  /\ pages' = flatPages
  /\ pageIndex' = 0
  /\ loads' = loads (-) awaiting(l)
  /\ UNCHANGED <<schema, loading, hits, run>>

\* the awaited promise rejected (corrupt PDF, extraction or OCR failure):
\* the exception leaves handleLoadDoc, nothing after the await runs
loadRejects(l) ==
  /\ BagIn(l, loads)
  /\ loads' = loads (-) awaiting(l)
  /\ UNCHANGED <<schema, pdf, pages, pageIndex, loading, hits, run>>

----------------------------------------------------------------------------
(* App: runCompare.  `run` is the call: pc, the schema and pages of the    *)
(* render it was started from, and its locals.  A call that has ended      *)
(* keeps how it ended (pc, error) until the next one starts.               *)

RunIdle ==
  [ pc |-> "idle", campos |-> <<>>, pages |-> <<>>, pageEmb |-> <<>>,
    i |-> 0, newHits |-> <<>>, error |-> "" ]

InProgress == {"embedPages", "embedQuery"}

\* newHits.push({ campo: field.id, pageIndex: bestIdx, similaridade: ...,
\*                snippet, erros, keywords })
\* The shorthand property `erros` names a variable that is not declared (the
\* local is `errs`): evaluating the literal throws a ReferenceError.
newHit(f, best, snippet, es, kws) ==
  [ threw |-> TRUE, error |-> "ReferenceError" ]

\* click on "3) Comparar" (disabled={!schema || !pages.length || loading})
runCompare ==
  /\ schema # <<>> /\ Len(pages) > 0 /\ ~loading
  /\ loading' = TRUE
  /\ run' = [RunIdle EXCEPT !.pc = "embedPages",
                             !.campos = schema[1].campos, !.pages = pages]
  /\ UNCHANGED <<schema, pdf, pages, pageIndex, hits, loads>>

\* getEmbedder inside embedAll: the model is built on first use
embedderAfter(loaded) ==
  IF featureExtractor = NoModel /\ loaded THEN 1 ELSE featureExtractor

\* runThrows without the finally block
runThrows_NoFinally(error) ==
  /\ run' = [run EXCEPT !.pc = "threw", !.error = error, !.pageEmb = <<>>]
  /\ UNCHANGED <<schema, pdf, pages, pageIndex, loading, hits, loads>>

\* } finally { setLoading(false) }, with an exception leaving the try block
runThrows(error) ==
  /\ loading' = FALSE
  /\ run' = [run EXCEPT !.pc = "threw", !.error = error, !.pageEmb = <<>>]
  /\ UNCHANGED <<schema, pdf, pages, pageIndex, hits, loads>>

\* setHits(newHits); if (newHits.length) setPageIndex(newHits[0].pageIndex);
\* setTimeout(drawHighlights) (DOM only); finally setLoading(false)
runReturns(newHits) ==
  /\ hits' = newHits
  /\ pageIndex' = IF Len(newHits) > 0 THEN newHits[1].pageIndex ELSE pageIndex
  /\ loading' = FALSE
  /\ run' = [run EXCEPT !.pc = "returned", !.newHits = newHits,
                          !.pageEmb = <<>>]
  /\ UNCHANGED <<schema, pdf, pages, loads>>

\* an awaited embedAll rejected (model load or inference failure)
embedAllRejects ==
  /\ run.pc \in InProgress
  /\ \E loaded \in BOOLEAN : featureExtractor' = embedderAfter(loaded)
  /\ runThrows("embedAll")

\* `const pageEmb = await embedAll(pageTexts)` resolved: one vector per page
embedPagesResolves ==
  /\ run.pc = "embedPages"
  /\ featureExtractor' = embedderAfter(TRUE)
  /\ \E pe \in [1..Len(run.pages) -> AppVecs] :
       IF Len(run.campos) = 0
       THEN runReturns(<<>>)
       ELSE /\ run' = [run EXCEPT !.pc = "embedQuery", !.pageEmb = pe]
            /\ UNCHANGED <<schema, pdf, pages, pageIndex, loading, hits, loads>>

\* `const [qEmb] = await embedAll([q])` resolved: the rest of the loop body
\* for field campos[i], then the next field or the end of the run
embedQueryResolves ==
  /\ run.pc = "embedQuery"
  /\ featureExtractor' = embedderAfter(TRUE)
  /\ \E q \in AppVecs :
       LET f        == run.campos[run.i + 1]
           best     == bestPage(q, run.pageEmb)
           pageText == run.pages[best.bestIdx + 1].fullText
           es       == validateValue(f, pageText)
           snippet  == slice0(pageText, 800)
           kws      == pickKeywords(snippet, 6)
           hit      == newHit(f, best, snippet, es, kws)
       IN IF hit.threw
          THEN runThrows(hit.error)
          ELSE LET newHits == Append(run.newHits, hit.value)
               IN IF run.i + 1 < Len(run.campos)
                  THEN /\ run' = [run EXCEPT !.i = @ + 1, !.newHits = newHits]
                       /\ UNCHANGED <<schema, pdf, pages, pageIndex, loading,
                                      hits, loads>>
                  ELSE runReturns(newHits)

----------------------------------------------------------------------------
(* App: page navigation and the score *)

\* The three controls that call setPageIndex: the "previous" button
\* (disabled={pageIndex===0}), the "next" button
\* (disabled={pageIndex>=pages.length-1}), both rendered only when pdf is
\* set, and one link per entry of hits.
pageTargets ==
  (IF pdf # <<>> /\ pageIndex # 0 THEN {Max(0, pageIndex - 1)} ELSE {})
  \cup (IF pdf # <<>> /\ ~(pageIndex >= Len(pages) - 1)
        THEN {Min(Len(pages) - 1, pageIndex + 1)} ELSE {})
  \cup {hits[k].pageIndex : k \in 1..Len(hits)}

clickPage ==
  /\ \E t \in pageTargets : pageIndex' = t
  /\ UNCHANGED <<schema, pdf, pages, loading, hits, loads, run>>

RECURSIVE totalPenal(_)
totalPenal(hs) ==
  IF hs = <<>> THEN 0 ELSE Len(Head(hs).erros) + totalPenal(Tail(hs))

\* score without Math.max(0, ...)
score_NoFloor ==
  IF Len(hits) = 0 THEN 0 ELSE 100 - 5 * totalPenal(hits)

\* const score = useMemo(...)
score ==
  IF Len(hits) = 0 THEN 0 ELSE Max(0, 100 - 5 * totalPenal(hits))

----------------------------------------------------------------------------
(* Initial states *)

NoLoad == [outcome |-> "none", before |-> <<>>]

AppInit ==
  /\ schema = <<>> /\ pdf = <<>> /\ pages = <<>> /\ pageIndex = 0
  /\ loading = FALSE /\ hits = <<>>
  /\ loads = EmptyBag /\ run = RunIdle
  /\ lastLoad = NoLoad

EmbInit ==
  /\ featureExtractor = NoModel
  /\ callers = [c \in Callers |-> [pc |-> "idle", got |-> NoModel]]

ValIdle  == field = campo(1) /\ val = <<>> /\ errs = <<>>
KwIdle   == text = <<>> /\ n = 6 /\ keywords = <<>>
BestIdle == qEmb = <<>> /\ pageEmb = <<>> /\ bestIdx = 0 /\ bestScore = fixed(-1)

----------------------------------------------------------------------------
(* Spec: the App component *)

Init == AppInit /\ EmbInit /\ ValIdle /\ KwIdle /\ BestIdle /\ returned = ""

NoEmbed == UNCHANGED <<lastLoad, embVars, pureVars>>
Embeds  == UNCHANGED <<lastLoad, callers, pureVars>>

Next ==
  \/ \E s \in Schemas : handleLoadYAML(s) /\ NoEmbed
  \/ \E f \in DocFiles, useOCR \in BOOLEAN : handleLoadDoc(f, useOCR) /\ NoEmbed
  \/ \E l \in BagToSet(loads) : loadPDFResolves(l) /\ NoEmbed
  \/ \E l \in BagToSet(loads) : extractResolves(l) /\ NoEmbed
  \/ \E l \in BagToSet(loads) : flatResolves(l) /\ NoEmbed
  \/ \E l \in BagToSet(loads) : loadRejects(l) /\ NoEmbed
  \/ runCompare /\ NoEmbed
  \/ embedPagesResolves /\ Embeds
  \/ embedQueryResolves /\ Embeds
  \/ embedAllRejects /\ Embeds
  \/ clickPage /\ NoEmbed

Spec == Init /\ [][Next]_vars

----------------------------------------------------------------------------
(* SpecLoad: one handleLoadDoc call at a time, with nothing else touching  *)
(* the document state while it runs; lastLoad records the state it started *)
(* from and how it ended.                                                  *)

docState == <<pdf, pages, pageIndex>>
Rest == UNCHANGED <<embVars, pureVars>>

LoadStarts ==
  \E f \in DocFiles, useOCR \in BOOLEAN :
    /\ loads = EmptyBag
    /\ handleLoadDoc(f, useOCR)
    /\ lastLoad' = [outcome |-> IF loads' = EmptyBag THEN "failed" ELSE "pending",
                    before |-> docState]
    /\ Rest

LoadContinues ==
  \E l \in BagToSet(loads) : loadPDFResolves(l) /\ UNCHANGED lastLoad /\ Rest

LoadSucceeds ==
  \/ \E l \in BagToSet(loads) :
       extractResolves(l) /\ lastLoad' = [lastLoad EXCEPT !.outcome = "loaded"] /\ Rest
  \/ \E l \in BagToSet(loads) :
       flatResolves(l) /\ lastLoad' = [lastLoad EXCEPT !.outcome = "loaded"] /\ Rest

LoadFails ==
  \E l \in BagToSet(loads) :
    loadRejects(l) /\ lastLoad' = [lastLoad EXCEPT !.outcome = "failed"] /\ Rest

Navigates == loads = EmptyBag /\ clickPage /\ lastLoad' = NoLoad /\ Rest

NextLoad == LoadStarts \/ LoadContinues \/ LoadSucceeds \/ LoadFails \/ Navigates

SpecLoad == Init /\ [][NextLoad]_vars

----------------------------------------------------------------------------
(* SpecEmb: NCallers concurrent callers of getEmbedder *)

NoApp == UNCHANGED <<appVars, lastLoad, pureVars>>

NextEmb ==
  \/ \E c \in Callers : GetEmbedder(c) /\ NoApp
  \/ \E c \in Callers : PipelineResolves(c) /\ NoApp
  \/ \E c \in Callers : PipelineRejects(c) /\ NoApp

SpecEmb == Init /\ [][NextEmb]_vars

----------------------------------------------------------------------------
(* SpecValidate: validateValue on every field and text of the bounds *)

InitValidate ==
  /\ AppInit /\ EmbInit /\ KwIdle /\ BestIdle /\ returned = ""
  /\ field \in Fields /\ val \in ValTexts /\ errs = <<>>

CallValidateValue ==
  /\ returned = ""
  /\ errs' = validateValue(field, val)
  /\ returned' = "validateValue"
  /\ UNCHANGED <<appVars, lastLoad, embVars, field, val, kwVars, bestVars>>

SpecValidate == InitValidate /\ [][CallValidateValue]_vars

----------------------------------------------------------------------------
(* SpecKeywords: pickKeywords on every text and n of the bounds *)

InitKeywords ==
  /\ AppInit /\ EmbInit /\ ValIdle /\ BestIdle /\ returned = ""
  /\ text \in KwTexts /\ n \in KwNs /\ keywords = <<>>

CallPickKeywords ==
  /\ returned = ""
  /\ keywords' = pickKeywords(text, n)
  /\ returned' = "pickKeywords"
  /\ UNCHANGED <<appVars, lastLoad, embVars, valVars, text, n, bestVars>>

SpecKeywords == InitKeywords /\ [][CallPickKeywords]_vars

----------------------------------------------------------------------------
(* SpecBest: the best-page scan on every query and page vectors *)

InitBest ==
  /\ AppInit /\ EmbInit /\ ValIdle /\ KwIdle /\ returned = ""
  /\ qEmb \in Vecs /\ pageEmb \in SeqsUpTo(Vecs, MaxPages) \ {<<>>}
  /\ bestIdx = 0 /\ bestScore = fixed(-1)

ScanPages ==
  /\ returned = ""
  /\ LET best == bestPage(qEmb, pageEmb)
     IN bestIdx' = best.bestIdx /\ bestScore' = best.bestScore
  /\ returned' = "bestPage"
  /\ UNCHANGED <<appVars, lastLoad, embVars, valVars, kwVars, qEmb, pageEmb>>

SpecBest == InitBest /\ [][ScanPages]_vars

----------------------------------------------------------------------------
(* SpecScore: the score memo on every result list of the bounds *)

ErrLists ==
  { SubSeq(<<ErrObrigatorio, ErrNumerico, ErrRegex, ErrMinPalavras(2)>>, 1, k) :
      k \in 0..4 }

HitLists ==
  SeqsUpTo([ campo : {"f1"}, pageIndex : {0}, similaridade : {fixed(1)},
             snippet : {pageFullText(1)}, erros : ErrLists, keywords : {<<>>} ],
           MaxHits)

InitScore ==
  /\ schema = <<>> /\ pdf = <<>> /\ pages = <<>> /\ pageIndex = 0
  /\ loading = FALSE /\ loads = EmptyBag /\ run = RunIdle /\ lastLoad = NoLoad
  /\ hits \in HitLists
  /\ EmbInit /\ ValIdle /\ KwIdle /\ BestIdle /\ returned = ""

\* a render evaluates the memo for the current hits
RenderScore ==
  /\ returned = ""
  /\ returned' = "score"
  /\ UNCHANGED <<appVars, lastLoad, embVars, valVars, kwVars, bestVars>>

SpecScore == InitScore /\ [][RenderScore]_vars

----------------------------------------------------------------------------
(* Properties *)

Range(s) == {s[i] : i \in 1..Len(s)}

\* C1: a comparison run over a schema of n >= 1 fields in which every
\* embedding call succeeds ends with hits holding exactly n entries, the
\* i-th carrying the id of the i-th field and the index of an existing page.
C1_RunFillsHits ==
  (run.pc \in {"returned", "threw"} /\ run.error # "embedAll"
     /\ Len(run.campos) >= 1)
  => /\ Len(hits) = Len(run.campos)
     /\ \A i \in 1..Len(hits) :
          /\ hits[i].campo = run.campos[i].id
          /\ hits[i].pageIndex \in 0..(Len(run.pages) - 1)

\* C2: a handleLoadDoc call that fails at any step leaves pdf, pages and
\* pageIndex as they were when it started.
C2_FailedLoadKeepsState ==
  lastLoad.outcome = "failed" => docState = lastLoad.before

\* C3: loading is true exactly while a runCompare call is in progress, so
\* every exit (return, embedding failure, exception in the field loop)
\* leaves it false; and a run that fails leaves hits untouched.
C3_LoadingBracketsRun ==
  /\ [](loading <=> run.pc \in InProgress)
  /\ [][(run.pc \in InProgress /\ run'.pc = "threw") => hits' = hits]_vars

C3_Witness ==
  run.pc = "threw" /\ run.error = "ReferenceError" /\ ~loading

\* C4: the scan selects the lowest index whose score is the maximum of the
\* page scores, and reports that maximum.
pageScores == [i \in 1..Len(pageEmb) |-> cosineSim(qEmb, pageEmb[i])]
maxScore == CHOOSE m \in Range(pageScores) : \A x \in Range(pageScores) : x <= m

C4_LowestIndexOfMaximum ==
  returned = "bestPage"
  => /\ bestScore = maxScore
     /\ bestIdx \in 0..(Len(pageEmb) - 1)
     /\ pageScores[bestIdx + 1] = maxScore
     /\ \A j \in 1..bestIdx : pageScores[j] < maxScore

C4_Witness ==
  /\ returned = "bestPage"
  /\ \E i, j \in 1..Len(pageEmb) :
       i < j /\ pageScores[i] = maxScore /\ pageScores[j] = maxScore
         /\ bestIdx = i - 1

\* C5: for a numeric field, validateValue reports the numeric error exactly
\* when the text contains no digit.
C5_NumericErrorIffNoDigit ==
  (returned = "validateValue" /\ field.tipo = "numerico")
  => (ErrNumerico \in Range(errs) <=> ~\E i \in 1..Len(val) : val[i] \in Digits)

\* C6: pickKeywords returns the first n surviving tokens in the order
\* "higher frequency first, and among equal frequencies the token first
\* met in the text first", digit-only tokens included.
tokens == splitWS(stripNonWord(toLowerCase(text)))
survives(w) == w # <<>> /\ w \notin StopWords /\ Len(w) >= 3
surviving == {w \in Range(tokens) : survives(w)}
frequency(w) == Cardinality({i \in 1..Len(tokens) : tokens[i] = w})
firstMet(w) == CHOOSE i \in 1..Len(tokens) :
                 tokens[i] = w /\ \A j \in 1..(i - 1) : tokens[j] # w
ranksBefore(a, b) ==
  \/ frequency(a) > frequency(b)
  \/ frequency(a) = frequency(b) /\ firstMet(a) < firstMet(b)

C6_FrequencyThenFirstMet ==
  returned = "pickKeywords"
  => /\ Len(keywords) = Min(n, Cardinality(surviving))
     /\ Range(keywords) \subseteq surviving
     /\ \A i, j \in 1..Len(keywords) :
          i < j => ranksBefore(keywords[i], keywords[j])
     /\ \A w \in surviving \ Range(keywords) :
          \A i \in 1..Len(keywords) : ranksBefore(keywords[i], w)

\* C7: in every state, score = max(0, 100 - 5 * E), E the number of
\* validation errors over all entries of hits, an empty hits included.
errorCount ==
  Cardinality(UNION { {<<i, j>> : j \in 1..Len(hits[i].erros)} :
                        i \in 1..Len(hits) })

C7_ScoreFormula == score = Max(0, 100 - 5 * errorCount)

\* C7 (amended): score = max(0, 100 - 5 * E) whenever hits is not empty,
\* and score = 0 when hits is empty.
C7_ScoreFormulaNonEmpty ==
  score = IF Len(hits) = 0 THEN 0 ELSE Max(0, 100 - 5 * errorCount)

C7_Witness ==
  returned = "score" /\ errorCount > 20 /\ score = 0

\* C8: for a required field with a pattern and a blank text that does not
\* match the pattern, validateValue returns exactly
\* [required-missing, pattern-mismatch], whatever the other attributes.
blank(s) == \A i \in 1..Len(s) : s[i] \in Spaces
C8_Case ==
  /\ returned = "validateValue"
  /\ field.obrigatorio /\ field.regex # ""
  /\ blank(val) /\ ~regexTest(field.regex, val)

C8_ExactlyTwoErrors == C8_Case => errs = <<ErrObrigatorio, ErrRegex>>

\* C8 (amended): in that case the required-missing error comes first and
\* the pattern-mismatch error after it; they are the only two errors
\* exactly when no other rule fires: the type is not numeric, it is not a
\* choice whose non-empty allowed list has no value occurring in the text,
\* and the minimum word count is absent, or the text is empty, or the
\* minimum is at most the two pieces a blank text splits into.
C8_OtherRuleFires ==
  \/ field.tipo = "numerico"
  \/ /\ field.tipo = "escolha" /\ field.valores_validos # <<>>
     /\ \A k \in 1..Len(field.valores_validos) :
          ~includes(val, toLowerCase(field.valores_validos[k]))
  \/ field.min_palavras > 2 /\ val # <<>>

C8_TwoErrorsIffNoOtherRule ==
  C8_Case
  => /\ errs[1] = ErrObrigatorio
     /\ \E j \in 2..Len(errs) : errs[j] = ErrRegex
     /\ (errs = <<ErrObrigatorio, ErrRegex>>) <=> ~C8_OtherRuleFires

C8_Witness ==
  C8_Case /\ field.tipo = "escolha" /\ field.min_palavras = 3
    /\ val = <<" ">> /\ errs = <<ErrObrigatorio, ErrRegex, ErrMinPalavras(3)>>

\* C9: over any interleaving of getEmbedder calls the model is built at
\* most once and every caller receives the same instance.
instances ==
  ({featureExtractor} \cup {callers[c].got : c \in Callers}) \ {NoModel}

C9_SingleInstance == Cardinality(instances) <= 1

====
